---- MODULE Spec2Model ----
(***************************************************************************)
(* Model of src/code/src/services/transaction_service.py: the two entry    *)
(* points fetch_transactions_by_date and get_recommended_transaction_by_   *)
(* date, and the pure helper clean_completion_text.                         *)
(*                                                                         *)
(* Texts are sequences of one-character strings.                            *)
(***************************************************************************)
EXTENDS Integers, Sequences, FiniteSets, TLC

VARIABLES
  \* the cleaner applied to a text on its own
  text, cleaned, recleaned, cstage,
  \* the transactions collection
  store,
  \* the running entry point and its position
  op, pc,
  \* locals of the running entry point
  date_str, date_obj, unprocessed_txs, messages, response, completion_text,
  \* str(e) of the exception caught at line 126, "none" when none was raised
  exc,
  \* what the entry point handed to its caller
  ret,
  \* calls made by the running entry point
  dbReads, providerCalls, prompts, cleans, decodes,
  \* positions visited by the running get_recommended_transaction_by_date
  trace,
  \* the selection fetched by the previous get_recommended_transaction_by_date
  lastRun

cleanVars == <<text, cleaned, recleaned, cstage>>
locals == <<date_str, date_obj, unprocessed_txs, messages, response, completion_text, exc>>
calls == <<dbReads, providerCalls, prompts, cleans, decodes>>
pipeVars == <<store, op, pc, locals, ret, calls, trace, lastRun>>
vars == <<cleanVars, pipeVars>>

(* ---------------------------- bounds ----------------------------------- *)
\* longest text given to the cleaner on its own
MaxLen == 8
\* number of transactions in the collection
MaxTx == 2

(* ---------------------------- text helpers ----------------------------- *)
\* the backtick character (written by name: the lexer rejects it in a string)
BT == "BACKTICK"
SP == " "
NL == "\n"

Alphabet == {BT, SP, NL, "a"}

Min(S) == CHOOSE x \in S : \A y \in S : x <= y
Max(S) == CHOOSE x \in S : \A y \in S : x >= y

\* str.isspace for the characters of the alphabet
IsSpace(c) == c \in {SP, NL}

\* str.strip(): drop leading and trailing whitespace
Strip(t) ==
  LET idx == {i \in 1..Len(t) : ~IsSpace(t[i])}
  IN  IF idx = {} THEN <<>> ELSE SubSeq(t, Min(idx), Max(idx))

\* str.startswith(p)
StartsWith(t, p) == Len(t) >= Len(p) /\ SubSeq(t, 1, Len(p)) = p

\* str.splitlines(): split at line boundaries, no empty last line after a
\* trailing boundary, [] for the empty text
RECURSIVE SplitLines(_)
SplitLines(t) ==
  IF t = <<>> THEN <<>>
  ELSE LET nl == {i \in 1..Len(t) : t[i] = NL}
       IN  IF nl = {} THEN <<t>>
           ELSE <<SubSeq(t, 1, Min(nl) - 1)>>
                  \o SplitLines(SubSeq(t, Min(nl) + 1, Len(t)))

\* sep.join(lines)
RECURSIVE Join(_, _)
Join(lines, sep) ==
  IF lines = <<>> THEN <<>>
  ELSE IF Len(lines) = 1 THEN lines[1]
  ELSE lines[1] \o sep \o Join(Tail(lines), sep)

Fence == <<BT, BT, BT>>

\* variant: the text is trimmed only when it is fenced
clean_completion_text_untrimmed(x) ==
  LET t == Strip(x)
  IN  IF StartsWith(t, Fence)
      THEN LET lines == SplitLines(t)
               l1 == IF StartsWith(lines[1], Fence) THEN Tail(lines) ELSE lines
               l2 == IF l1 # <<>> /\ StartsWith(l1[Len(l1)], Fence)
                     THEN SubSeq(l1, 1, Len(l1) - 1) ELSE l1
           IN  Strip(Join(l2, <<NL>>))
      ELSE x

clean_completion_text(x) ==
  LET t == Strip(x)
  IN  IF StartsWith(t, Fence)
      THEN LET lines == SplitLines(t)
               l1 == IF StartsWith(lines[1], Fence) THEN Tail(lines) ELSE lines
               l2 == IF l1 # <<>> /\ StartsWith(l1[Len(l1)], Fence)
                     THEN SubSeq(l1, 1, Len(l1) - 1) ELSE l1
           IN  Strip(Join(l2, <<NL>>))
      ELSE t

(* ---------------------------- dates ------------------------------------ *)
Digits == <<"0", "1", "2", "3", "4", "5", "6", "7", "8", "9">>

IsDigit(c) == \E d \in 1..10 : Digits[d] = c
DigitVal(c) == (CHOOSE d \in 1..10 : Digits[d] = c) - 1

AllDigits(f) == \A i \in 1..Len(f) : IsDigit(f[i])

RECURSIVE NumVal(_)
NumVal(f) ==
  IF f = <<>> THEN 0
  ELSE 10 * NumVal(SubSeq(f, 1, Len(f) - 1)) + DigitVal(f[Len(f)])

\* the fields of a text between the literal "/" of the format
RECURSIVE Fields(_)
Fields(t) ==
  LET sl == {i \in 1..Len(t) : t[i] = "/"}
  IN  IF sl = {} THEN <<t>>
      ELSE <<SubSeq(t, 1, Min(sl) - 1)>> \o Fields(SubSeq(t, Min(sl) + 1, Len(t)))

IsLeap(y) == (y % 4 = 0 /\ y % 100 # 0) \/ y % 400 = 0

DaysInMonth(y, m) ==
  IF m = 2 THEN (IF IsLeap(y) THEN 29 ELSE 28)
  ELSE IF m \in {4, 6, 9, 11} THEN 30 ELSE 31

\* datetime.strptime(date_str, "%m/%d/%Y"): %m and %d take one or two
\* digits (the leading zero is optional), %Y exactly four; the whole text
\* must match and the date must exist, else ValueError
strptime(s) ==
  LET f == Fields(s)
      wellFormed ==
        /\ Len(f) = 3
        /\ Len(f[1]) \in {1, 2} /\ AllDigits(f[1]) /\ NumVal(f[1]) \in 1..12
        /\ Len(f[2]) \in {1, 2} /\ AllDigits(f[2]) /\ NumVal(f[2]) \in 1..31
        /\ Len(f[3]) = 4 /\ AllDigits(f[3]) /\ NumVal(f[3]) >= 1
        /\ NumVal(f[2]) <= DaysInMonth(NumVal(f[3]), NumVal(f[1]))
  IN  IF wellFormed
      THEN [ok |-> TRUE, year |-> NumVal(f[3]), month |-> NumVal(f[1]),
            day |-> NumVal(f[2])]
      ELSE [ok |-> FALSE, year |-> 0, month |-> 0, day |-> 0]

\* datetime(year, month, day, hour, minute, second) as a tuple
start_of_day(d) == <<d.year, d.month, d.day, 0, 0, 0>>
end_of_day(d)   == <<d.year, d.month, d.day, 23, 59, 59>>

\* datetime comparison a <= b
RECURSIVE DtLeq(_, _)
DtLeq(a, b) ==
  IF a = <<>> THEN TRUE
  ELSE IF Head(a) # Head(b) THEN Head(a) < Head(b)
  ELSE DtLeq(Tail(a), Tail(b))

(* ---------------------------- JSON ------------------------------------- *)
\* json.loads restricted to arrays, objects, strings without escapes and
\* non-negative integers; every reply text of the model lies in the part of
\* the text space where this grammar and JSON agree.
QUOTE == "\""

IsJsonWs(c) == c \in {SP, NL}

RECURSIVE SkipWs(_, _)
SkipWs(t, i) ==
  IF i <= Len(t) /\ IsJsonWs(t[i]) THEN SkipWs(t, i + 1) ELSE i

RECURSIVE DigitsEnd(_, _)
DigitsEnd(t, i) ==
  IF i <= Len(t) /\ IsDigit(t[i]) THEN DigitsEnd(t, i + 1) ELSE i

JFail == [ok |-> FALSE, val |-> [k |-> "none"], next |-> 0]
JOk(v, n) == [ok |-> TRUE, val |-> v, next |-> n]

\* a string starting at the quote at position i
ParseString(t, i) ==
  LET close == {j \in (i + 1)..Len(t) : t[j] = QUOTE}
  IN  IF close = {} THEN JFail
      ELSE LET j == Min(close)
               body == SubSeq(t, i + 1, j - 1)
           IN  IF \E n \in 1..Len(body) : body[n] \in {NL, "\\"}
               THEN JFail
               ELSE JOk([k |-> "str", str |-> body], j + 1)

\* a dict from the member list: a repeated key keeps its last value
MkObject(ms) ==
  LET keys == {ms[n][1] : n \in 1..Len(ms)}
  IN  [k |-> "obj",
       obj |-> [key \in keys |->
                  ms[Max({n \in 1..Len(ms) : ms[n][1] = key})][2]]]

RECURSIVE ParseValue(_, _)
RECURSIVE ParseElems(_, _, _)
RECURSIVE ParseMembers(_, _, _)

\* the elements of an array after "[" or ",", i at the next value
ParseElems(t, i, acc) ==
  LET r == ParseValue(t, i)
  IN  IF ~r.ok THEN JFail
      ELSE LET j == SkipWs(t, r.next)
           IN  IF j > Len(t) THEN JFail
               ELSE IF t[j] = "]"
                    THEN JOk([k |-> "arr", arr |-> Append(acc, r.val)], j + 1)
               ELSE IF t[j] = ","
                    THEN ParseElems(t, SkipWs(t, j + 1), Append(acc, r.val))
               ELSE JFail

\* the members of an object after "{" or ",", i at the next key
ParseMembers(t, i, acc) ==
  IF i > Len(t) \/ t[i] # QUOTE THEN JFail
  ELSE LET key == ParseString(t, i)
       IN  IF ~key.ok THEN JFail
           ELSE LET c == SkipWs(t, key.next)
                IN  IF c > Len(t) \/ t[c] # ":" THEN JFail
                    ELSE LET r == ParseValue(t, SkipWs(t, c + 1))
                         IN  IF ~r.ok THEN JFail
                             ELSE LET j == SkipWs(t, r.next)
                                      ms == Append(acc, <<key.val.str, r.val>>)
                                  IN  IF j > Len(t) THEN JFail
                                      ELSE IF t[j] = "}"
                                           THEN JOk(MkObject(ms), j + 1)
                                      ELSE IF t[j] = ","
                                           THEN ParseMembers(t, SkipWs(t, j + 1), ms)
                                      ELSE JFail

ParseValue(t, i) ==
  IF i > Len(t) THEN JFail
  ELSE IF t[i] = QUOTE THEN ParseString(t, i)
  ELSE IF IsDigit(t[i])
       THEN LET e == DigitsEnd(t, i)
            IN  IF t[i] = "0" /\ e > i + 1 THEN JOk([k |-> "num", num |-> 0], i + 1)
                ELSE JOk([k |-> "num", num |-> NumVal(SubSeq(t, i, e - 1))], e)
  ELSE IF t[i] = "["
       THEN LET j == SkipWs(t, i + 1)
            IN  IF j <= Len(t) /\ t[j] = "]"
                THEN JOk([k |-> "arr", arr |-> <<>>], j + 1)
                ELSE ParseElems(t, j, <<>>)
  ELSE IF t[i] = "{"
       THEN LET j == SkipWs(t, i + 1)
            IN  IF j <= Len(t) /\ t[j] = "}"
                THEN JOk(MkObject(<<>>), j + 1)
                ELSE ParseMembers(t, j, <<>>)
  ELSE JFail

\* json.loads(s): skip whitespace, decode one value, skip whitespace, and
\* fail (JSONDecodeError) on anything left
json_loads(t) ==
  LET r == ParseValue(t, SkipWs(t, 1))
  IN  IF r.ok /\ SkipWs(t, r.next) > Len(t) THEN r ELSE JFail

(* ---------------------------- the collection -------------------------- *)
TxId(i) == <<"T", Digits[i + 1]>>

\* ObjectId of the i-th document and str() of it
ObjectId(i) == [oid |-> i]
ObjectIdStr(o) == <<"o", "i", "d", Digits[o.oid + 1]>>

TxDates == {<<2024, 3, 1, 0, 0, 0>>, <<2024, 3, 1, 23, 59, 59>>, <<2024, 3, 2, 0, 0, 0>>}

Tx(i, date, processed) ==
  [_id |-> ObjectId(i),
   transaction_id |-> TxId(i),
   transaction_type |-> "debit",
   balance_after_transaction |-> 500,
   amount |-> 20,
   merchant_category |-> "travel",
   description |-> "Flight",
   transaction_date |-> date,
   is_processed_for_recommendation |-> processed]

Stores ==
  {[i \in 1..MaxTx |-> Tx(i, f[i][1], f[i][2])] :
     f \in [1..MaxTx -> TxDates \X BOOLEAN]}

\* the query both entry points build from the parsed date
Query(d) ==
  [transaction_date |-> [gte |-> start_of_day(d), lte |-> end_of_day(d)],
   is_processed_for_recommendation |-> FALSE]

\* variant: the flag of the query is not applied
Find_noflag(coll, query) ==
  LET Matches(tx) ==
        /\ DtLeq(query.transaction_date.gte, tx.transaction_date)
        /\ DtLeq(tx.transaction_date, query.transaction_date.lte)
  IN  SelectSeq(coll, Matches)

\* transactions_coll.find(query), in the collection's natural order
Find(coll, query) ==
  LET Matches(tx) ==
        /\ DtLeq(query.transaction_date.gte, tx.transaction_date)
        /\ DtLeq(tx.transaction_date, query.transaction_date.lte)
        /\ tx.is_processed_for_recommendation = query.is_processed_for_recommendation
  IN  SelectSeq(coll, Matches)

IdsOfTxs(txs) == {txs[i].transaction_id : i \in 1..Len(txs)}

(* ---------------------------- inputs ----------------------------------- *)
DateStrs ==
  {<<"0", "3", "/", "0", "1", "/", "2", "0", "2", "4">>,
   <<"3", "/", "1", "/", "2", "0", "2", "4">>,
   <<"0", "3", "/", "0", "2", "/", "2", "0", "2", "4">>,
   <<"2", "0", "2", "4", "-", "0", "3", "-", "0", "1">>,
   <<"0", "2", "/", "3", "0", "/", "2", "0", "2", "4">>}

Quoted(s) == <<QUOTE>> \o s \o <<QUOTE>>

KeyTransactionId ==
  <<"t", "r", "a", "n", "s", "a", "c", "t", "i", "o", "n", "_", "i", "d">>
KeyReason == <<"r", "e", "a", "s", "o", "n">>

\* a reply choosing the transaction id TxId(i)
Pick(i) ==
  <<"[", "{">> \o Quoted(KeyTransactionId) \o <<":">> \o Quoted(TxId(i))
    \o <<",", SP>> \o Quoted(KeyReason) \o <<":">> \o Quoted(<<"o", "k">>)
    \o <<"}", "]">>

Bodies ==
  {Pick(i) : i \in 1..(MaxTx + 1)}
    \cup {<<"[", "]">>,
          <<"S", "u", "r", "e">>,
          <<"[", "{">> \o Quoted(KeyTransactionId) \o <<":">> \o Quoted(TxId(1))}

LangTag == <<"j", "s", "o", "n">>

Wrap(w, b) ==
  CASE w = "plain"  -> b
    [] w = "padded" -> <<NL, SP>> \o b \o <<SP, NL>>
    [] w = "fenced" -> Fence \o LangTag \o <<NL>> \o b \o <<NL>> \o Fence
    [] w = "open"   -> Fence \o <<NL>> \o b
    [] w = "double" -> Fence \o <<NL>> \o Fence \o LangTag \o <<NL>> \o b
                         \o <<NL>> \o Fence \o <<NL>> \o Fence

\* the content of the first choice of a completion
Replies == {Wrap(w, b) : w \in {"plain", "padded", "fenced", "open", "double"}, b \in Bodies}

\* str(e) of an exception of the completion call
ProviderErrors == {"Connection error.", "Request timed out."}

(* ---------------------------- prompt ----------------------------------- *)
TxDescription(tx) ==
  [TransactionID |-> tx.transaction_id,
   Type |-> tx.transaction_type,
   BalanceAfterTransaction |-> tx.balance_after_transaction,
   Amount |-> tx.amount,
   Category |-> tx.merchant_category,
   Desc |-> tx.description]

user_message(txs) ==
  [head |-> "Transactions:\n",
   prompt_context |-> [i \in 1..Len(txs) |-> TxDescription(txs[i])],
   tail |-> "\nWhich transactions do you pick?"]

Messages(txs) ==
  <<[role |-> "system", content |-> "system_instructions"],
    [role |-> "user", content |-> user_message(txs)]>>

(* ---------------------------- return values ---------------------------- *)
NoRet == [status |-> "none", value |-> "none"]
Returned(v) == [status |-> "returned", value |-> v]
Raised(e) == [status |-> "raised", value |-> e]

\* lines 77-80
NoDataResult(d) ==
  [message |-> "No unprocessed transactions found for this date", date |-> d]

\* variant: the failure payload also carries a raw_response key
InvokeFailedResult_raw(e) ==
  [error |-> <<"OpenAI API call failed: ", e>>, raw_response |-> <<>>]

\* line 127
InvokeFailedResult(e) == [error |-> <<"OpenAI API call failed: ", e>>]

\* line 136
DecodeFailedResult(t) ==
  [error |-> "Failed to parse LLM response as JSON.", raw_response |-> t]

NoDate == [ok |-> FALSE, year |-> 0, month |-> 0, day |-> 0]
NoLastRun == [has |-> FALSE, day |-> <<>>, ids |-> {}]

InitRun ==
  /\ op = "none"
  /\ pc = "idle"
  /\ date_str = <<>>
  /\ date_obj = NoDate
  /\ unprocessed_txs = <<>>
  /\ messages = <<>>
  /\ response = <<>>
  /\ completion_text = <<>>
  /\ exc = "none"
  /\ ret = NoRet
  /\ dbReads = 0 /\ providerCalls = 0 /\ prompts = 0 /\ cleans = 0 /\ decodes = 0
  /\ trace = <<>>

Init ==
  /\ store \in Stores
  /\ InitRun
  /\ lastRun = NoLastRun
  /\ text = <<>> /\ cleaned = <<>> /\ recleaned = <<>> /\ cstage = "unused"

(* ---------------------------- fetch_transactions_by_date --------------- *)
\* the whole call: parse the date, query, stringify _id, return
FetchTransactionsByDate ==
  /\ pc = "idle"
  /\ \E d \in DateStrs :
       LET parsed == strptime(d)
           transactions == Find(store, Query(parsed))
       IN  /\ date_str' = d
           /\ op' = "fetch"
           /\ \/ /\ ~parsed.ok
                 /\ pc' = "Raised"
                 /\ ret' = Raised("ValueError")
                 /\ UNCHANGED <<date_obj, dbReads>>
              \/ /\ parsed.ok
                 /\ date_obj' = parsed
                 /\ dbReads' = dbReads + 1
                 /\ \/ /\ pc' = "Returned"
                       /\ ret' = Returned([i \in 1..Len(transactions) |->
                                   [transactions[i] EXCEPT !._id = ObjectIdStr(@)]])
                    \/ /\ pc' = "Raised"
                       /\ ret' = Raised("RepositoryError")
  /\ UNCHANGED <<store, exc, unprocessed_txs, messages, response, completion_text,
                 providerCalls, prompts, cleans, decodes, trace, lastRun, cleanVars>>

(* ---------------------------- get_recommended_transaction_by_date ------ *)
Goto(l) == pc' = l /\ trace' = Append(trace, l)

Call ==
  /\ pc = "idle"
  /\ \E d \in DateStrs : date_str' = d
  /\ op' = "recommend"
  /\ Goto("Start")
  /\ UNCHANGED <<store, exc, date_obj, unprocessed_txs, messages, response,
                 completion_text, ret, calls, lastRun, cleanVars>>

\* variant: a rejected date is answered with the no-data message
ParseDate_swallow ==
  /\ op = "recommend" /\ pc = "Start"
  /\ LET parsed == strptime(date_str)
     IN  IF parsed.ok
         THEN /\ date_obj' = parsed
              /\ Goto("Fetching")
              /\ UNCHANGED ret
         ELSE /\ Goto("NoEligibleTransactions")
              /\ ret' = Returned(NoDataResult(date_str))
              /\ UNCHANGED date_obj
  /\ UNCHANGED <<store, exc, op, date_str, unprocessed_txs, messages, response,
                 completion_text, calls, lastRun, cleanVars>>

\* lines 62-64
ParseDate ==
  /\ op = "recommend" /\ pc = "Start"
  /\ LET parsed == strptime(date_str)
     IN  IF parsed.ok
         THEN /\ date_obj' = parsed
              /\ Goto("Fetching")
              /\ UNCHANGED ret
         ELSE /\ Goto("Raised")
              /\ ret' = Raised("ValueError")
              /\ UNCHANGED date_obj
  /\ UNCHANGED <<store, exc, op, date_str, unprocessed_txs, messages, response,
                 completion_text, calls, lastRun, cleanVars>>

\* variant: the fetched transactions are marked as processed
Fetch_marking ==
  /\ op = "recommend" /\ pc = "Fetching"
  /\ dbReads' = dbReads + 1
  /\ \/ LET txs == Find(store, Query(date_obj))
        IN  /\ unprocessed_txs' = txs
            /\ store' = [i \in 1..Len(store) |->
                           IF store[i].transaction_id \in IdsOfTxs(txs)
                           THEN [store[i] EXCEPT !.is_processed_for_recommendation = TRUE]
                           ELSE store[i]]
            /\ IF txs = <<>>
               THEN /\ Goto("NoEligibleTransactions")
                    /\ ret' = Returned(NoDataResult(date_str))
               ELSE /\ Goto("Prompting")
                    /\ UNCHANGED ret
     \/ /\ Goto("Raised")
        /\ ret' = Raised("RepositoryError")
        /\ UNCHANGED <<store, unprocessed_txs>>
  /\ UNCHANGED <<exc, op, date_str, date_obj, messages, response,
                 completion_text, providerCalls, prompts, cleans, decodes,
                 lastRun, cleanVars>>

\* lines 66-80
Fetch ==
  /\ op = "recommend" /\ pc = "Fetching"
  /\ dbReads' = dbReads + 1
  /\ \/ LET txs == Find(store, Query(date_obj))
        IN  /\ unprocessed_txs' = txs
            /\ IF txs = <<>>
               THEN /\ Goto("NoEligibleTransactions")
                    /\ ret' = Returned(NoDataResult(date_str))
               ELSE /\ Goto("Prompting")
                    /\ UNCHANGED ret
     \/ /\ Goto("Raised")
        /\ ret' = Raised("RepositoryError")
        /\ UNCHANGED unprocessed_txs
  /\ UNCHANGED <<store, exc, op, date_str, date_obj, messages, response,
                 completion_text, providerCalls, prompts, cleans, decodes,
                 lastRun, cleanVars>>

\* lines 82-114
BuildPrompt ==
  /\ op = "recommend" /\ pc = "Prompting"
  /\ messages' = Messages(unprocessed_txs)
  /\ prompts' = prompts + 1
  /\ Goto("Invoking")
  /\ UNCHANGED <<store, exc, op, date_str, date_obj, unprocessed_txs, response,
                 completion_text, ret, dbReads, providerCalls, cleans, decodes,
                 lastRun, cleanVars>>

\* variant: a failed completion call is made a second time
Invoke_retry ==
  /\ op = "recommend" /\ pc = "Invoking"
  /\ providerCalls' = providerCalls + 1
  /\ \/ /\ \E r \in Replies : response' = r
        /\ Goto("Invoked")
        /\ UNCHANGED <<ret, exc>>
     \/ /\ providerCalls = 0
        /\ UNCHANGED <<pc, trace, ret, exc, response>>
     \/ /\ providerCalls > 0
        /\ \E e \in ProviderErrors :
             /\ exc' = e
             /\ ret' = Returned(InvokeFailedResult(e))
        /\ Goto("InvokeFailed")
        /\ UNCHANGED response
  /\ UNCHANGED <<store, op, date_str, date_obj, unprocessed_txs, messages,
                 completion_text, dbReads, prompts, cleans, decodes, lastRun,
                 cleanVars>>

\* lines 117-127
Invoke ==
  /\ op = "recommend" /\ pc = "Invoking"
  /\ providerCalls' = providerCalls + 1
  /\ \/ /\ \E r \in Replies : response' = r
        /\ Goto("Invoked")
        /\ UNCHANGED <<ret, exc>>
     \/ /\ \E e \in ProviderErrors :
             /\ exc' = e
             /\ ret' = Returned(InvokeFailedResult(e))
        /\ Goto("InvokeFailed")
        /\ UNCHANGED response
  /\ UNCHANGED <<store, op, date_str, date_obj, unprocessed_txs, messages,
                 completion_text, dbReads, prompts, cleans, decodes, lastRun,
                 cleanVars>>

\* line 130
ExtractText ==
  /\ op = "recommend" /\ pc = "Invoked"
  /\ completion_text' = Strip(response)
  /\ Goto("Cleaning")
  /\ UNCHANGED <<store, exc, op, date_str, date_obj, unprocessed_txs, messages,
                 response, ret, calls, lastRun, cleanVars>>

\* variant: the result of the cleaner is dropped
Clean_dropped ==
  /\ op = "recommend" /\ pc = "Cleaning"
  /\ cleans' = cleans + 1
  /\ Goto("Decoding")
  /\ UNCHANGED <<store, exc, op, date_str, date_obj, unprocessed_txs, messages,
                 response, completion_text, ret, dbReads, providerCalls, prompts,
                 decodes, lastRun, cleanVars>>

\* line 131
Clean ==
  /\ op = "recommend" /\ pc = "Cleaning"
  /\ completion_text' = clean_completion_text(completion_text)
  /\ cleans' = cleans + 1
  /\ Goto("Decoding")
  /\ UNCHANGED <<store, exc, op, date_str, date_obj, unprocessed_txs, messages,
                 response, ret, dbReads, providerCalls, prompts, decodes,
                 lastRun, cleanVars>>

\* variant: a decoded reply is replaced by the first fetched transaction
Decode_first ==
  /\ op = "recommend" /\ pc = "Decoding"
  /\ decodes' = decodes + 1
  /\ LET llm_json == json_loads(completion_text)
     IN  IF llm_json.ok
         THEN /\ ret' = Returned(
                   [k |-> "arr",
                    arr |-> <<MkObject(<<<<KeyTransactionId,
                                [k |-> "str",
                                 str |-> unprocessed_txs[1].transaction_id]>>>>)>>])
              /\ Goto("Done")
         ELSE /\ ret' = Returned(DecodeFailedResult(completion_text))
              /\ Goto("DecodeFailed")
  /\ UNCHANGED <<store, exc, op, date_str, date_obj, unprocessed_txs, messages,
                 response, completion_text, dbReads, providerCalls, prompts,
                 cleans, lastRun, cleanVars>>

\* lines 133-139
Decode ==
  /\ op = "recommend" /\ pc = "Decoding"
  /\ decodes' = decodes + 1
  /\ LET llm_json == json_loads(completion_text)
     IN  IF llm_json.ok
         THEN /\ ret' = Returned(llm_json.val)
              /\ Goto("Done")
         ELSE /\ ret' = Returned(DecodeFailedResult(completion_text))
              /\ Goto("DecodeFailed")
  /\ UNCHANGED <<store, exc, op, date_str, date_obj, unprocessed_txs, messages,
                 response, completion_text, dbReads, providerCalls, prompts,
                 cleans, lastRun, cleanVars>>

Terminal == {"NoEligibleTransactions", "InvokeFailed", "DecodeFailed", "Done"}

\* the caller has the outcome; the locals of the call are gone
Finish ==
  /\ pc \in Terminal \cup {"Raised", "Returned"}
  /\ lastRun' = IF op = "recommend" /\ pc \in Terminal
                THEN [has |-> TRUE, day |-> start_of_day(date_obj),
                      ids |-> IdsOfTxs(unprocessed_txs)]
                ELSE lastRun
  /\ op' = "none"
  /\ pc' = "idle"
  /\ date_str' = <<>>
  /\ date_obj' = NoDate
  /\ unprocessed_txs' = <<>>
  /\ messages' = <<>>
  /\ response' = <<>>
  /\ completion_text' = <<>>
  /\ exc' = "none"
  /\ ret' = NoRet
  /\ dbReads' = 0 /\ providerCalls' = 0 /\ prompts' = 0 /\ cleans' = 0 /\ decodes' = 0
  /\ trace' = <<>>
  /\ UNCHANGED <<store, cleanVars>>

Next ==
  \/ FetchTransactionsByDate
  \/ Call
  \/ ParseDate
  \/ Fetch
  \/ BuildPrompt
  \/ Invoke
  \/ ExtractText
  \/ Clean
  \/ Decode
  \/ Finish

Spec == Init /\ [][Next]_vars

(* ------------------- specification of the pure cleaner ------------------ *)
Texts == UNION {[1..n -> Alphabet] : n \in 0..MaxLen}

InitClean ==
  /\ store = [i \in 1..MaxTx |-> Tx(i, <<2024, 3, 1, 0, 0, 0>>, FALSE)]
  /\ InitRun
  /\ lastRun = NoLastRun
  /\ text \in Texts
  /\ cleaned = <<>>
  /\ recleaned = <<>>
  /\ cstage = "input"

CleanOnce ==
  /\ cstage = "input"
  /\ cleaned' = clean_completion_text(text)
  /\ cstage' = "once"
  /\ UNCHANGED <<text, recleaned, pipeVars>>

CleanTwice ==
  /\ cstage = "once"
  /\ recleaned' = clean_completion_text(cleaned)
  /\ cstage' = "twice"
  /\ UNCHANGED <<text, cleaned, pipeVars>>

NextClean == CleanOnce \/ CleanTwice

SpecClean == InitClean /\ [][NextClean]_vars

(* ---------------------------- properties ------------------------------- *)
\* c is x without its leading and trailing whitespace
IsTrimOf(c, x) ==
  \E i \in 1..(Len(x) + 1) : \E j \in 0..Len(x) :
    /\ c = SubSeq(x, i, j)
    /\ \A n \in 1..(i - 1) : IsSpace(x[n])
    /\ \A n \in (j + 1)..Len(x) : IsSpace(x[n])
    /\ c # <<>> => ~IsSpace(c[1]) /\ ~IsSpace(c[Len(c)])

\* the first non-whitespace characters of x are a triple-backtick fence
BeginsWithFence(x) ==
  \E i \in 1..Len(x) :
    /\ \A n \in 1..(i - 1) : IsSpace(x[n])
    /\ i + 2 <= Len(x)
    /\ x[i] = BT /\ x[i + 1] = BT /\ x[i + 2] = BT

\* p occurs in t
Occurs(p, t) == \E i \in 1..(Len(t) - Len(p) + 1) : SubSeq(t, i, i + Len(p) - 1) = p

\* the transaction_id strings that appear in a decoded JSON value
RECURSIVE IdsOf(_)
IdsOf(v) ==
  CASE v.k = "arr" -> UNION {IdsOf(v.arr[i]) : i \in 1..Len(v.arr)}
    [] v.k = "obj" ->
         (IF KeyTransactionId \in DOMAIN v.obj /\ v.obj[KeyTransactionId].k = "str"
          THEN {v.obj[KeyTransactionId].str} ELSE {})
           \cup UNION {IdsOf(v.obj[key]) : key \in DOMAIN v.obj}
    [] OTHER -> {}

\* the day a stored timestamp falls on
DayOf(dt) == <<dt[1], dt[2], dt[3]>>
DayOfDate(d) == <<d.year, d.month, d.day>>

\* ids of the stored transactions dated on day d, and of the unflagged ones
IdsOnDay(d) ==
  {store[i].transaction_id : i \in {n \in 1..Len(store) : DayOf(store[n].transaction_date) = d}}
UnprocessedIdsOnDay(d) ==
  {store[i].transaction_id :
     i \in {n \in 1..Len(store) :
              /\ DayOf(store[n].transaction_date) = d
              /\ ~store[n].is_processed_for_recommendation}}

\* C1: cleaning a cleaned text changes nothing:
\* clean_completion_text(clean_completion_text(x)) = clean_completion_text(x)
\* for every text x, also when a fence follows the opening fence
C1_Idempotent == cstage = "twice" => recleaned = cleaned

\* C2 (as stated): every transaction_id in a Done result is the id of a
\* transaction fetched by the selection query, whatever the provider replied
C2_OnlyFetchedIds ==
  (op = "recommend" /\ pc = "Done") =>
    IdsOf(ret.value) \subseteq IdsOfTxs(unprocessed_txs)

\* C2 (amended): every transaction_id in a Done result is one the provider's
\* reply names; the decoded reply is returned without a check against the
\* fetched transactions
C2_IdsComeFromReply ==
  (op = "recommend" /\ pc = "Done") =>
    \A id \in IdsOf(ret.value) : Occurs(Quoted(id), response)

C2_Witness ==
  /\ op = "recommend" /\ pc = "Done"
  /\ IdsOf(ret.value) # {}
  /\ IdsOf(ret.value) \cap IdsOfTxs(unprocessed_txs) = {}

\* C3: fetch_transactions_by_date returns every transaction dated on the
\* given day, the ones already processed for recommendation included
C3_FetchIgnoresFlag ==
  (op = "fetch" /\ pc = "Returned") =>
    IdsOfTxs(ret.value) = IdsOnDay(DayOfDate(date_obj))

\* C4: when the selection query finds nothing, the call returns exactly the
\* no-data message with the input date string, and neither builds a prompt
\* nor calls the provider
C4_NoEligible ==
  (/\ op = "recommend" /\ dbReads = 1 /\ ret.status # "raised"
   /\ UnprocessedIdsOnDay(DayOfDate(date_obj)) = {}) =>
    /\ pc = "NoEligibleTransactions"
    /\ ret = Returned([message |-> "No unprocessed transactions found for this date",
                       date |-> date_str])
    /\ messages = <<>> /\ prompts = 0 /\ providerCalls = 0

C4_Witness ==
  /\ op = "recommend" /\ pc = "NoEligibleTransactions"
  /\ date_str = <<"3", "/", "1", "/", "2", "0", "2", "4">>
  /\ IdsOnDay(<<2024, 3, 1>>) # {}

\* C5: an exception of the provider call is not propagated: the call returns
\* {error: "OpenAI API call failed: <cause>"} and nothing else, and neither
\* cleans nor decodes
C5_InvokeFailed ==
  (op = "recommend" /\ exc # "none") =>
    /\ pc = "InvokeFailed"
    /\ ret.status = "returned"
    /\ DOMAIN ret.value = {"error"}
    /\ ret.value.error = <<"OpenAI API call failed: ", exc>>
    /\ cleans = 0 /\ decodes = 0

C5_Witness ==
  op = "recommend" /\ pc = "InvokeFailed" /\ exc = "Request timed out." /\ providerCalls = 1

\* C6: after a provider call that returned, a cleaned reply that is not JSON
\* gives {error, raw_response: the cleaned text}, and one that is JSON gives
\* the decoded value itself
C6_DecodeOutcome ==
  (op = "recommend" /\ decodes = 1) =>
    LET t == clean_completion_text(response)
    IN  IF json_loads(t).ok
        THEN pc = "Done" /\ ret = Returned(json_loads(t).val)
        ELSE /\ pc = "DecodeFailed"
             /\ ret = Returned([error |-> "Failed to parse LLM response as JSON.",
                                raw_response |-> t])

C6_Witness ==
  /\ op = "recommend" /\ pc = "DecodeFailed"
  /\ ret.value.raw_response # response
  /\ ret.value.raw_response # Strip(response)

\* C7: no step of either entry point changes the collection, and a call of
\* get_recommended_transaction_by_date fetches the transactions the previous
\* call for the same day fetched
C7_SameSelection ==
  (/\ op = "recommend" /\ pc \in Terminal /\ lastRun.has
   /\ lastRun.day = start_of_day(date_obj)) =>
    IdsOfTxs(unprocessed_txs) = lastRun.ids

C7_StoreNeverWritten == [][store' = store]_vars /\ []C7_SameSelection

C7_Witness ==
  /\ op = "recommend" /\ pc \in Terminal /\ lastRun.has
  /\ lastRun.day = start_of_day(date_obj)
  /\ unprocessed_txs # <<>>

C9_NoFenceIsTrim ==
  (cstage # "input" /\ ~BeginsWithFence(text)) => IsTrimOf(cleaned, text)

C9_Witness ==
  /\ cstage = "once" /\ ~BeginsWithFence(text)
  /\ cleaned # text
  /\ \E i \in 1..Len(cleaned) : cleaned[i] = BT

IsPrefix(a, b) == Len(a) <= Len(b) /\ SubSeq(b, 1, Len(a)) = a

CommonPath == <<"Start", "Fetching", "Prompting", "Invoking">>
ReturningPaths ==
  {<<"Start", "Fetching", "NoEligibleTransactions">>,
   CommonPath \o <<"InvokeFailed">>,
   CommonPath \o <<"Invoked", "Cleaning", "Decoding", "DecodeFailed">>,
   CommonPath \o <<"Invoked", "Cleaning", "Decoding", "Done">>}
RaisingPaths == {<<"Start", "Raised">>, <<"Start", "Fetching", "Raised">>}

RunEnded == op = "recommend" /\ ret.status # "none"

CallOrder ==
  /\ providerCalls <= 1
  /\ providerCalls = 1 => dbReads = 1
  /\ decodes <= 1
  /\ decodes = 1 => (providerCalls = 1 /\ exc = "none")

\* C10 (as stated): every run follows Start -> Fetching -> ... in order,
\* reads the repository exactly once and before any provider call, calls the
\* provider at most once, decodes only after a provider call that returned,
\* and ends in one of the four terminal states
C10_EveryRun ==
  op = "recommend" =>
    /\ \E path \in ReturningPaths : IsPrefix(trace, path)
    /\ CallOrder
    /\ RunEnded => (pc \in Terminal /\ dbReads = 1)

\* C10 (amended): the same for every run that returns a value; a run that
\* raises (rejected date, repository fault) ends in none of the four states,
\* before any provider call
C10_EveryReturningRun ==
  op = "recommend" =>
    /\ \E path \in ReturningPaths \cup RaisingPaths : IsPrefix(trace, path)
    /\ pc = trace[Len(trace)]
    /\ CallOrder
    /\ ret.status = "returned" => (pc \in Terminal /\ dbReads = 1 /\ trace \in ReturningPaths)
    /\ ret.status = "raised" => (pc = "Raised" /\ providerCalls = 0 /\ dbReads <= 1)

C10_Witness ==
  /\ op = "recommend" /\ pc = "DecodeFailed" /\ Len(trace) = 8
  /\ dbReads = 1 /\ providerCalls = 1 /\ decodes = 1
====
